---- MODULE Spec2Model ----
(***************************************************************************)
(* A model of compile_database.py: the compile-database index               *)
(* (CompileFileInfo), the argument normalizer (cmd_split, filterFlags),     *)
(* the module root resolver (findSwiftModuleRoot) and the flag inference    *)
(* entry points (GetFlags, InferFlagsForSwift).                             *)
(*                                                                          *)
(* Strings are sequences of characters.  A character is a TLA+ string: the  *)
(* characters the code treats specially (space, the two quotes, backslash,  *)
(* "=", "/", "@") stand for themselves, and any other string ("swiftc",     *)
(* "X", ".swift") stands for a run of ordinary characters that the code     *)
(* never looks into.                                                        *)
(***************************************************************************)
EXTENDS Integers, Sequences, FiniteSets, TLC

SP == " "
DQ == "\""
SQ == "'"
BS == "\\"
EQ == "="
SL == "/"
AT == "@"

\* Python values: None, a returned value, a raised exception.
None == [tag |-> "None"]
Some(v) == [tag |-> "ok", v |-> v]
Raise(e) == [tag |-> "raise", exc |-> e]
IsSome(r) == r.tag = "ok"
IsRaise(r) == r.tag = "raise"

\* Op applied to the value of v, which is computed once
With(v, Op(_)) == CHOOSE y \in {Op(x) : x \in {v}} : TRUE

Min(S) == CHOOSE x \in S : \A y \in S : x <= y
Max(S) == CHOOSE x \in S : \A y \in S : y <= x
Range(f) == {f[x] : x \in DOMAIN f}

RECURSIVE Concat(_)
\* "".join(parts)
Concat(parts) == IF parts = <<>> THEN <<>> ELSE Head(parts) \o Concat(Tail(parts))

\* s[:n] and s[n:] (n counts characters, as a Python offset does)
Prefix(s, n) == SubSeq(s, 1, n)
Suffix(s, n) == SubSeq(s, n + 1, Len(s))

\* how often token t occurs in the token list ts
Count(ts, t) == Cardinality({i \in DOMAIN ts : ts[i] = t})

(***************************************************************************)
(* cmd_split: shlex.split(s), that is shlex in POSIX mode with             *)
(* whitespace_split and no comment characters.  The states are those of     *)
(* shlex.read_token: "ws" (its ' '), "word" (its 'a'), an open quote, or    *)
(* the escape character.  An unclosed quote and a trailing escape raise     *)
(* ValueError.                                                              *)
(***************************************************************************)
shlex_quotes == {SQ, DQ}

RECURSIVE shlex_read(_, _, _, _, _, _, _)
shlex_read(s, i, st, esc, tok, quoted, out) ==
    LET eof == i > Len(s)
        c == s[i]
    IN  CASE st = "ws" ->
               IF eof THEN Some(out)
               ELSE IF c = SP THEN shlex_read(s, i + 1, "ws", esc, tok, quoted, out)
               ELSE IF c = BS THEN shlex_read(s, i + 1, BS, "word", tok, quoted, out)
               ELSE IF c \in shlex_quotes THEN shlex_read(s, i + 1, c, esc, tok, quoted, out)
               ELSE shlex_read(s, i + 1, "word", esc, <<c>>, quoted, out)
          [] st \in shlex_quotes ->
               IF eof THEN Raise("ValueError")
               ELSE IF c = st THEN shlex_read(s, i + 1, "word", esc, tok, TRUE, out)
               ELSE IF c = BS /\ st = DQ THEN shlex_read(s, i + 1, BS, st, tok, TRUE, out)
               ELSE shlex_read(s, i + 1, st, esc, Append(tok, c), TRUE, out)
          [] st = BS ->
               IF eof THEN Raise("ValueError")
               ELSE LET kept == IF esc \in shlex_quotes /\ c # BS /\ c # esc
                                THEN Append(tok, BS) ELSE tok
                    IN  shlex_read(s, i + 1, esc, esc, Append(kept, c), quoted, out)
          [] OTHER -> \* "word"
               IF eof THEN Some(IF tok # <<>> \/ quoted THEN Append(out, tok) ELSE out)
               ELSE IF c = SP
                    THEN IF tok # <<>> \/ quoted
                         THEN shlex_read(s, i + 1, "ws", "ws", <<>>, FALSE, Append(out, tok))
                         ELSE shlex_read(s, i + 1, "ws", esc, tok, quoted, out)
               ELSE IF c \in shlex_quotes THEN shlex_read(s, i + 1, c, esc, tok, quoted, out)
               ELSE IF c = BS THEN shlex_read(s, i + 1, BS, "word", tok, quoted, out)
               ELSE shlex_read(s, i + 1, "word", esc, Append(tok, c), quoted, out)

cmd_split(s) == shlex_read(s, 1, "ws", "ws", <<>>, FALSE, <<>>)

(***************************************************************************)
(* cmd_split_pattern: the offset where the first match of the pattern ends  *)
(* (next(cmd_split_pattern.finditer(command), None), then .end()), None     *)
(* when nothing matches.  The match starts at the first non-space           *)
(* character and takes the first alternative that matches there:            *)
(*   "..."  up to the first quote not preceded by a backslash, or, when     *)
(*          every later quote is preceded by one, up to the last quote;     *)
(*   '...'  up to the next single quote;                                    *)
(*   a run of non-space characters and backslash-space pairs.               *)
(***************************************************************************)
RECURSIVE pattern_run_end(_, _)
pattern_run_end(s, i) ==
    IF i > Len(s) THEN i - 1
    ELSE IF s[i] = BS /\ i < Len(s) /\ s[i + 1] = SP THEN pattern_run_end(s, i + 2)
    ELSE IF s[i] # SP THEN pattern_run_end(s, i + 1)
    ELSE i - 1

cmd_split_pattern_end(s) ==
    LET starts == {i \in DOMAIN s : s[i] # SP}
    IN  IF starts = {} THEN None
        ELSE LET p == Min(starts)
                 dqs == {j \in DOMAIN s : j > p /\ s[j] = DQ}
                 bare == {j \in dqs : s[j - 1] # BS}
                 sqs == {j \in DOMAIN s : j > p /\ s[j] = SQ}
             IN  IF s[p] = DQ /\ dqs # {}
                 THEN Some(IF bare # {} THEN Min(bare) ELSE Max(dqs))
                 ELSE IF s[p] = SQ /\ sqs # {}
                 THEN Some(Min(sqs))
                 ELSE Some(pattern_run_end(s, p))

(***************************************************************************)
(* shlex.quote: a string of safe characters is returned as it is, any       *)
(* other one in single quotes with each ' written as '"'"'.                 *)
(***************************************************************************)
shlex_unsafe == {SP, SQ, DQ, BS}

RECURSIVE quote_body(_)
quote_body(s) ==
    IF s = <<>> THEN <<>>
    ELSE (IF Head(s) = SQ THEN <<SQ, DQ, SQ, DQ, SQ>> ELSE <<Head(s)>>) \o quote_body(Tail(s))

quote(s) ==
    IF s = <<>> THEN <<SQ, SQ>>
    ELSE IF \A i \in DOMAIN s : s[i] \notin shlex_unsafe THEN s
    ELSE <<SQ>> \o quote_body(s) \o <<SQ>>

(***************************************************************************)
(* Paths (os.path).  Lower is str.lower(): it maps the upper-case letters   *)
(* of the model's alphabet and leaves the rest.  Realpath resolves the      *)
(* symbolic links of the modelled file system (SymLinks: directory ->       *)
(* target directory).                                                       *)
(***************************************************************************)
LowerChar(c) ==
    CASE c = "X" -> "x" [] c = "Y" -> "y" [] c = "B" -> "b" [] c = "C" -> "c"
      [] c = "D" -> "d" [] c = "H" -> "h" [] c = "P" -> "p" [] c = "F" -> "f"
      [] c = ".SWIFT" -> ".swift"
      [] OTHER -> c

Lower(s) == [i \in DOMAIN s |-> LowerChar(s[i])]

EndsWith(s, suffix) ==
    Len(s) >= Len(suffix) /\ SubSeq(s, Len(s) - Len(suffix) + 1, Len(s)) = suffix

StartsWith(s, prefix) == Len(s) >= Len(prefix) /\ SubSeq(s, 1, Len(prefix)) = prefix

\* the substring test: sub in s
Contains(s, sub) ==
    \E i \in 0..(Len(s) - Len(sub)) : SubSeq(s, i + 1, i + Len(sub)) = sub

RECURSIVE RStripSlash(_)
RStripSlash(s) == IF s # <<>> /\ s[Len(s)] = SL THEN RStripSlash(Prefix(s, Len(s) - 1)) ELSE s

\* os.path.dirname
Dirname(p) ==
    LET slashes == {i \in DOMAIN p : p[i] = SL}
    IN  IF slashes = {} THEN <<>>
        ELSE LET head == Prefix(p, Max(slashes))
             IN  IF \A i \in DOMAIN head : head[i] = SL THEN head ELSE RStripSlash(head)

\* os.path.basename
Basename(p) ==
    LET slashes == {i \in DOMAIN p : p[i] = SL}
    IN  IF slashes = {} THEN p ELSE Suffix(p, Max(slashes))

\* os.path.join(directory, name), name relative
Join(dir, name) == IF dir = <<>> \/ dir[Len(dir)] = SL THEN dir \o name ELSE dir \o <<SL>> \o name

DOT_SWIFT == <<".swift">>

D_P == <<SL, "p">>
D_Q == <<SL, "q">>
D_L == <<SL, "l">>

\* /l is a symbolic link to /p
SymLinks == [d \in {D_L} |-> D_P]

\* os.path.realpath, for absolute paths
Realpath(p) ==
    IF Dirname(p) \in DOMAIN SymLinks THEN Join(SymLinks[Dirname(p)], Basename(p)) ELSE p

filekey(filename) == Lower(Realpath(filename))

(***************************************************************************)
(* Finite maps (Python dicts) as functions.                                 *)
(***************************************************************************)
EmptyMap == [x \in {} |-> {}]
Put(f, k, v) == [x \in DOMAIN f \cup {k} |-> IF x = k THEN v ELSE f[x]]
Remove(f, k) == [x \in DOMAIN f \ {k} |-> f[x]]
RECURSIVE PutAll(_, _, _)
\* dict.update((k, v) for k in ks), ks a list
PutAll(f, ks, v) == IF ks = <<>> THEN f ELSE PutAll(Put(f, Head(ks), v), Tail(ks), v)

(***************************************************************************)
(* getFileArgs / readFileArgs: the shell-tokenized content of an argument   *)
(* file, memoized by path in cache (store["filelist"]).  files maps the     *)
(* paths of the files that exist to their content.  The result is           *)
(* [res |-> tokens or the exception, cache |-> the cache afterwards]: a     *)
(* failed read caches nothing.                                              *)
(***************************************************************************)
readFileArgs(path, files) ==
    IF path \notin DOMAIN files THEN Raise("FileNotFoundError") ELSE cmd_split(files[path])

getFileArgs(path, cache, files) ==
    IF path \in DOMAIN cache THEN [res |-> Some(cache[path]), cache |-> cache]
    ELSE LET r == readFileArgs(path, files)
         IN  [res |-> r, cache |-> IF IsSome(r) THEN Put(cache, path, r.v) ELSE cache]

(***************************************************************************)
(* filterFlags: the normalizer.  A directive with nothing after it ends     *)
(* the stream (next(it) raises StopIteration, which the function catches).  *)
(***************************************************************************)
\* a variant that knows no directive with a value
DropWithValue_none == {}

DropWithValue == {<<"-emit-localized-strings-path">>}
DropAlone == {<<"-use-frontend-parseable-output">>, <<"-emit-localized-strings">>}
FILELIST == <<"-filelist">>

RECURSIVE filterFlagsFrom(_, _, _, _, _)
filterFlagsFrom(items, i, cache, files, out) ==
    IF i > Len(items) THEN [res |-> Some(out), cache |-> cache]
    ELSE LET arg == items[i]
         IN  IF arg \in DropWithValue
             THEN filterFlagsFrom(items, i + 2, cache, files, out)
             ELSE IF arg \in DropAlone
             THEN filterFlagsFrom(items, i + 1, cache, files, out)
             ELSE IF arg = FILELIST
             THEN IF i + 1 > Len(items) THEN [res |-> Some(out), cache |-> cache]
                  ELSE LET r == getFileArgs(items[i + 1], cache, files)
                       IN  IF IsSome(r.res)
                           THEN filterFlagsFrom(items, i + 2, r.cache, files, out \o r.res.v)
                           ELSE r
             ELSE IF arg # <<>> /\ arg[1] = AT
             THEN LET r == getFileArgs(Tail(arg), cache, files)
                  IN  IF IsSome(r.res)
                      THEN filterFlagsFrom(items, i + 1, r.cache, files, out \o r.res.v)
                      ELSE r
             ELSE filterFlagsFrom(items, i + 1, cache, files, Append(out, arg))

filterFlags(items, cache, files) == filterFlagsFrom(items, 1, cache, files, <<>>)

(***************************************************************************)
(* CompileFileInfo.  A compile-database file is [tag |-> "malformed"] or    *)
(* [tag |-> "json", records |-> a list of records]; a record has the keys   *)
(* command, files, fileLists and file, each <<>> when the key is missing    *)
(* or empty (the code tests only their truth value).                        *)
(***************************************************************************)
Record(command, files, fileLists, file) ==
    [command |-> command, files |-> files, fileLists |-> fileLists, file |-> file]

MapSeq(Op(_), s) == [i \in DOMAIN s |-> Op(s[i])]

RECURSIVE fileListsArgs(_, _, _, _)
\* the file names of the record's external file lists that exist (lines 209-214)
fileListsArgs(lists, cache, files, acc) ==
    IF lists = <<>> THEN [res |-> Some(acc), cache |-> cache]
    ELSE IF Head(lists) \notin DOMAIN files
    THEN fileListsArgs(Tail(lists), cache, files, acc)
    ELSE LET r == getFileArgs(Head(lists), cache, files)
         IN  IF IsSome(r.res)
             THEN fileListsArgs(Tail(lists), r.cache, files, acc \o r.res.v)
             ELSE r

\* the file names one record gives, in the order the loop body reads them:
\* "files", then the content of the "fileLists" that exist, then "file"
record_files(rec, cache, files) ==
    LET ls == fileListsArgs(rec.fileLists, cache, files, <<>>)
    IN  IF IsRaise(ls.res) THEN ls
        ELSE [res |-> Some(rec.files \o ls.res.v
                           \o (IF rec.file # <<>> THEN <<rec.file>> ELSE <<>>)),
              cache |-> ls.cache]

\* a variant that keeps the command a file key already has
load_record_keep(fi, rec, cache, files) ==
    IF rec.command = <<>> THEN [res |-> Some(fi), cache |-> cache]
    ELSE LET fs == record_files(rec, cache, files)
         IN  IF IsRaise(fs.res) THEN fs
             ELSE LET new == PutAll(EmptyMap, MapSeq(filekey, fs.res.v), rec.command)
                  IN  [res |-> Some([k \in DOMAIN fi \cup DOMAIN new |->
                                        IF k \in DOMAIN fi THEN fi[k] ELSE new[k]]),
                       cache |-> fs.cache]

\* one turn of the loop over the records (lines 200-216)
load_record(fi, rec, cache, files) ==
    IF rec.command = <<>> THEN [res |-> Some(fi), cache |-> cache]
    ELSE LET fs == record_files(rec, cache, files)
         IN  IF IsRaise(fs.res) THEN fs
             ELSE [res |-> Some(PutAll(fi, MapSeq(filekey, fs.res.v), rec.command)),
                   cache |-> fs.cache]

RECURSIVE load_records(_, _, _, _)
load_records(fi, recs, cache, files) ==
    IF recs = <<>> THEN [res |-> Some(fi), cache |-> cache]
    ELSE With(load_record(fi, Head(recs), cache, files),
              LAMBDA r : IF IsRaise(r.res) THEN r
                         ELSE load_records(r.res.v, Tail(recs), r.cache, files))

\* CompileFileInfo.__init__: file_info of the new instance, or the exception
CompileFileInfo_init(compileFile, dbfiles, cache, files) ==
    IF compileFile \notin DOMAIN dbfiles
    THEN [res |-> Raise("FileNotFoundError"), cache |-> cache]
    ELSE IF dbfiles[compileFile].tag = "malformed"
    THEN [res |-> Raise("JSONDecodeError"), cache |-> cache]
    ELSE load_records(EmptyMap, dbfiles[compileFile].records, cache, files)

RECURSIVE unescape_eq(_)
\* command.replace("\\=", "=")
unescape_eq(s) ==
    IF s = <<>> THEN <<>>
    ELSE IF Len(s) >= 2 /\ s[1] = BS /\ s[2] = EQ THEN <<EQ>> \o unescape_eq(Suffix(s, 2))
    ELSE <<Head(s)>> \o unescape_eq(Tail(s))

\* CompileFileInfo.get
get(fi, filename) ==
    LET k == Lower(filename)
    IN  IF k \in DOMAIN fi /\ fi[k] # <<>> THEN Some(unescape_eq(fi[k])) ELSE None

\* groupby_dir, the two lazy indices (lines 225-229)
dir_index(fi) ==
    [d \in {Dirname(f) : f \in DOMAIN fi} |-> {f \in DOMAIN fi : Dirname(f) = d}]

\* a variant that groups nothing by command
cmd_index_empty(fi) == EmptyMap

cmd_index(fi) == [c \in Range(fi) |-> {f \in DOMAIN fi : fi[f] = c}]

SwiftIn(S) == {v \in S : EndsWith(v, DOT_SWIFT)}

(***************************************************************************)
(* The iteration order of a Python set is arbitrary but fixed while the     *)
(* set is not changed.  firsts maps each directory of dir_info that holds   *)
(* a .swift key to the one the iteration of its set yields first: it is     *)
(* chosen when the set is built and chosen again when the set grows.        *)
(***************************************************************************)
AllFirsts(di) ==
    LET D == {d \in DOMAIN di : SwiftIn(di[d]) # {}}
    IN  {f \in [D -> UNION {di[d] : d \in D}] : \A d \in D : f[d] \in SwiftIn(di[d])}

\* line 261: the new file's path spliced in after the first match
splice(command, index, filename) ==
    Concat(<<Prefix(command, index), <<SP>>, quote(filename), Suffix(command, index)>>)

\* a variant without line 264
dir_info_skip(di, dir, key) == di

\* line 264

dir_info_add(di, dir, key) == [di EXCEPT ![dir] = @ \cup {key}]

\* lines 257, 265, 266
cmd_info_move(ci, command, newcmd, key) ==
    Put(Remove(ci, command), newcmd, ci[command] \cup {key})

\* a variant that gives the new command to every key
file_info_update_all(fi, module_files, newcmd) ==
    [x \in DOMAIN fi \cup module_files |-> newcmd]

\* lines 267-268
file_info_update(fi, module_files, newcmd) ==
    [x \in DOMAIN fi \cup module_files |-> IF x \in module_files THEN newcmd ELSE fi[x]]

\* a variant that answers a repeated call with the file's whole batch
already_handled_batch(fi, key) == {f \in DOMAIN fi : fi[f] = fi[key]}

\* the set returned for a file that is already indexed (line 243)
already_handled(fi, key) == {key}

(***************************************************************************)
(* CompileFileInfo.new_file.  dio and cio are dir_info and cmd_info (None   *)
(* before groupby_dir has run), firsts the iteration choice above.          *)
(***************************************************************************)
new_file(filename, fi, dio, cio, firsts) ==
    LET real == Realpath(filename)
        key == Lower(real)
        dir == Dirname(key)
        di == IF dio = None THEN dir_index(fi) ELSE dio.v
        ci == IF dio = None THEN cmd_index(fi) ELSE cio.v
        early(ret) == [ret |-> ret, file_info |-> fi, dir_info |-> dio, cmd_info |-> cio,
                       samefile |-> <<>>, inserted |-> FALSE]
        grouped(ret) == [ret |-> ret, file_info |-> fi, dir_info |-> Some(di),
                         cmd_info |-> Some(ci), samefile |-> <<>>, inserted |-> FALSE]
        candidates == IF dir \in DOMAIN di THEN SwiftIn(di[dir]) ELSE {}
    IN  IF ~EndsWith(filename, DOT_SWIFT) THEN early(None)
        ELSE IF key \in DOMAIN fi THEN early(Some(already_handled(fi, key)))
        ELSE IF candidates = {} THEN grouped(None)
        ELSE LET samefile == firsts[dir]
                 command == fi[samefile]
                 cmd_match == cmd_split_pattern_end(command)
             IN  IF cmd_match = None THEN grouped(None)
                 ELSE IF ci = EmptyMap THEN grouped(Raise("AssertionError"))
                 ELSE IF command \notin DOMAIN ci THEN grouped(Raise("KeyError"))
                 ELSE LET newcmd == splice(command, cmd_match.v, real)
                          ci2 == cmd_info_move(ci, command, newcmd, key)
                          module_files == ci2[newcmd]
                      IN  [ret |-> Some(module_files),
                           file_info |-> file_info_update(fi, module_files, newcmd),
                           dir_info |-> Some(dir_info_add(di, dir, key)),
                           cmd_info |-> Some(ci2),
                           samefile |-> samefile, inserted |-> TRUE]

(***************************************************************************)
(* findSwiftModuleRoot and isProjectRoot.  env tells what the walk finds:   *)
(* env.swiftflags, env.compile and env.roots are the directories that hold  *)
(* a .swiftflags file, hold a .compile file, and pass isProjectRoot.  The   *)
(* result is (root, flagFile, compileFile); <<>> stands for None there (a   *)
(* path is never empty).  File names are absolute, normalized paths, which  *)
(* os.path.abspath returns as they are.                                     *)
(***************************************************************************)
SWIFTFLAGS == <<".swiftflags">>
COMPILE == <<".compile">>

isProjectRoot(directory, env) == directory \in env.roots

isfile_swiftflags(directory, env) == directory \in env.swiftflags

isfile_compile(directory, env) == directory \in env.compile

RECURSIVE module_root_walk_root_first(_, _, _)
\* a variant that looks for the project marker before the .swiftflags file
module_root_walk_root_first(directory, compileFile, env) ==
    IF directory = <<>> \/ directory = <<SL>>
    THEN [root |-> <<>>, flagFile |-> <<>>, compileFile |-> compileFile]
    ELSE LET found == IF compileFile = <<>> /\ isfile_compile(directory, env)
                      THEN Join(directory, COMPILE) ELSE compileFile
         IN  IF isProjectRoot(directory, env)
             THEN [root |-> directory, flagFile |-> <<>>, compileFile |-> found]
             ELSE IF isfile_swiftflags(directory, env)
             THEN [root |-> directory, flagFile |-> Join(directory, SWIFTFLAGS),
                   compileFile |-> compileFile]
             ELSE module_root_walk_root_first(Dirname(directory), found, env)

RECURSIVE module_root_walk_last_seen(_, _, _)
\* a variant in which a .compile file seen later replaces the one remembered
module_root_walk_last_seen(directory, compileFile, env) ==
    IF directory = <<>> \/ directory = <<SL>>
    THEN [root |-> <<>>, flagFile |-> <<>>, compileFile |-> compileFile]
    ELSE IF isfile_swiftflags(directory, env)
    THEN [root |-> directory, flagFile |-> Join(directory, SWIFTFLAGS),
          compileFile |-> compileFile]
    ELSE LET found == IF isfile_compile(directory, env)
                      THEN Join(directory, COMPILE) ELSE compileFile
         IN  IF isProjectRoot(directory, env)
             THEN [root |-> directory, flagFile |-> <<>>, compileFile |-> found]
             ELSE module_root_walk_last_seen(Dirname(directory), found, env)

RECURSIVE module_root_walk(_, _, _)
\* the while loop of lines 154-181, from one directory on
module_root_walk(directory, compileFile, env) ==
    IF directory = <<>> \/ directory = <<SL>>
    THEN [root |-> <<>>, flagFile |-> <<>>, compileFile |-> compileFile]
    ELSE IF isfile_swiftflags(directory, env)
    THEN [root |-> directory, flagFile |-> Join(directory, SWIFTFLAGS),
          compileFile |-> compileFile]
    ELSE LET found == IF compileFile = <<>> /\ isfile_compile(directory, env)
                      THEN Join(directory, COMPILE) ELSE compileFile
         IN  IF isProjectRoot(directory, env)
             THEN [root |-> directory, flagFile |-> <<>>, compileFile |-> found]
             ELSE module_root_walk(Dirname(directory), found, env)

findSwiftModuleRoot(filename, env) == module_root_walk(Dirname(filename), <<>>, env)

(***************************************************************************)
(* The session cache.  store.compile is store["compile"] (database path ->  *)
(* CompileFileInfo instance), store.filelist is store["filelist"] and       *)
(* store.headerDirs is store["headerDirs"].  Nothing in this file sets      *)
(* store["additional_files"], and the sessions modelled here hold none, so  *)
(* the loop of lines 294-295 has nothing to run over.                       *)
(* Every operation returns [res |-> its value or exception, store |-> the   *)
(* store afterwards].                                                       *)
(***************************************************************************)
EmptyStore == [compile |-> EmptyMap, filelist |-> EmptyMap, headerDirs |-> EmptyMap]

Instance(fi) == [file_info |-> fi, dir_info |-> None, cmd_info |-> None]

compileFileInfoFromStore(compileFile, store, env) ==
    IF compileFile \in DOMAIN store.compile
    THEN [res |-> Some(store.compile[compileFile]), store |-> store]
    ELSE With(CompileFileInfo_init(compileFile, env.dbfiles, store.filelist, env.files),
              LAMBDA r :
                IF IsRaise(r.res)
                THEN [res |-> r.res, store |-> [store EXCEPT !.filelist = r.cache]]
                ELSE [res |-> Some(Instance(r.res.v)),
                      store |-> [store EXCEPT !.filelist = r.cache,
                                              !.compile = Put(@, compileFile, Instance(r.res.v))]])

commandForFile(filename, compileFile, store, env) ==
    With(compileFileInfoFromStore(compileFile, store, env),
         LAMBDA r : IF IsRaise(r.res) THEN r
                    ELSE [res |-> get(r.res.v.file_info, filename), store |-> r.store])

\* newfileForCompileFile; f is the iteration order of the instance's sets
newfileForCompileFile(filename, compileFile, store, env, f) ==
    IF compileFile = <<>> THEN [res |-> None, store |-> store, inserted |-> FALSE]
    ELSE With(compileFileInfoFromStore(compileFile, store, env),
              LAMBDA c :
                IF IsRaise(c.res) THEN [res |-> c.res, store |-> c.store, inserted |-> FALSE]
                ELSE With(new_file(filename, c.res.v.file_info, c.res.v.dir_info,
                                   c.res.v.cmd_info, f),
                          LAMBDA r :
                            [res |-> r.ret,
                             store |-> [c.store EXCEPT !.compile =
                                          Put(@, compileFile,
                                              [file_info |-> r.file_info,
                                               dir_info |-> r.dir_info,
                                               cmd_info |-> r.cmd_info])],
                             inserted |-> r.inserted]))

\* lines 301-307, for a command that was found
flags_of_command(command, store, env) ==
    With(cmd_split(command),
         LAMBDA ts :
           IF IsRaise(ts) THEN [res |-> ts, store |-> store]
           ELSE With(filterFlags(SubSeq(ts.v, 2, Len(ts.v)), store.filelist, env.files),
                     LAMBDA f : [res |-> f.res,
                                 store |-> [store EXCEPT !.filelist = f.cache]]))

GetFlagsInCompile(filename, compileFile, store, env) ==
    IF compileFile = <<>> THEN [res |-> None, store |-> store]
    ELSE With(commandForFile(filename, compileFile, store, env),
              LAMBDA c : IF ~IsSome(c.res) THEN c
                         ELSE flags_of_command(c.res.v, c.store, env))

\* Python's truth value of a result that is None or a list
Falsy(res) == res = None \/ res = Some(<<>>)

GetFlags(filename, compileFile, store, env) ==
    IF compileFile = <<>> THEN [res |-> None, store |-> store]
    ELSE With(GetFlagsInCompile(filename, compileFile, store, env),
              LAMBDA r : IF IsRaise(r.res) THEN r
                         ELSE [res |-> IF Falsy(r.res) THEN None ELSE r.res,
                               store |-> r.store])

(***************************************************************************)
(* The tiers of InferFlagsForSwift.  A token such as "-I" + h is the        *)
(* string <<"-I">> \o h; the fixed SDK and toolchain paths are single       *)
(* characters of the model.                                                 *)
(***************************************************************************)
FRAMEWORK == ".framework"

\* additionalFlags: the lines of the flags file that are not empty and do
\* not start with "#" (the lines modelled carry no surrounding blanks)
additionalFlags(flagsPath, env) ==
    IF flagsPath = <<>> \/ flagsPath \notin DOMAIN env.flagfiles THEN <<>>
    ELSE SelectSeq(env.flagfiles[flagsPath], LAMBDA l : l # <<>> /\ l[1] # "#")

\* findAllHeaderDirectory: (headerDirs, frameworks) of the headers that find
\* lists, each as a list in the order the set is iterated; memoized per root
header_dirs(headers) ==
    LET plain == SelectSeq(headers, LAMBDA h : \A i \in DOMAIN h : h[i] # FRAMEWORK)
        inFw == SelectSeq(headers, LAMBDA h : \E i \in DOMAIN h : h[i] = FRAMEWORK)
        cut(h) == Prefix(h, Max({i \in DOMAIN h : h[i] = FRAMEWORK}) - 1)
    IN  [headerDirs |-> MapSeq(Dirname, plain),
         frameworks |-> MapSeq(LAMBDA h : Dirname(cut(h)), inFw)]

findAllHeaderDirectory(rootDirectory, store, env) ==
    IF rootDirectory \in DOMAIN store.headerDirs
    THEN [res |-> store.headerDirs[rootDirectory], store |-> store]
    ELSE LET found == header_dirs(env.headers)
         IN  [res |-> found,
              store |-> [store EXCEPT !.headerDirs = Put(@, rootDirectory, found)]]

\* findAllSwiftFiles
findAllSwiftFiles(rootDirectory, env) == MapSeq(Realpath, env.swiftfiles)

SDK_IPHONEOS == <<"iPhoneOS18.1.sdk">>
SDK_SIMULATOR == <<"iPhoneSimulator18.1.sdk">>
I_SWIFT == <<"-I", "XcodeDefault.xctoolchain/usr/lib/swift">>
L_SWIFT_SIM == <<"-L", "XcodeDefault.xctoolchain/usr/lib/swift/iphonesimulator">>
L_TOOLCHAIN == <<"-L", "XcodeDefault.xctoolchain/usr/lib">>
L_SDK == <<"-L", "iPhoneSimulator.sdk/usr/lib">>
TARGET == <<"arm64-apple-ios17.5-simulator">>

\* lines 357-364
heuristic_defaults == << <<"-sdk">>, SDK_IPHONEOS, I_SWIFT, L_SWIFT_SIM >>

\* lines 368-380
build_output_defaults(filename) ==
    << <<"-sdk">>, SDK_SIMULATOR, I_SWIFT, L_SWIFT_SIM, L_TOOLCHAIN, L_SDK,
       <<"-target">>, TARGET, filename >>

\* lines 383-391
static_fallback(filename) == << filename, <<"-sdk">>, SDK_IPHONEOS, I_SWIFT, L_SWIFT_SIM >>

RECURSIVE FlatMap(_, _)
FlatMap(Op(_), s) == IF s = <<>> THEN <<>> ELSE Op(Head(s)) \o FlatMap(Op, Tail(s))

\* lines 347-355: the flags of the flags file, filtered, without the
\* arguments that name a source file the scan found
kept_additional(base, a, swiftfiles, store, env) ==
    With(filterFlags(a, store.filelist, env.files),
         LAMBDA f :
           IF IsRaise(f.res)
           THEN [res |-> f.res, store |-> [store EXCEPT !.filelist = f.cache]]
           ELSE [res |-> Some(base \o SelectSeq(f.res.v,
                                LAMBDA arg : Basename(arg) \notin
                                             {Basename(p) : p \in Range(swiftfiles)})),
                 store |-> [store EXCEPT !.filelist = f.cache]])

\* lines 337-364: the heuristic-derivation tier
heuristic_tier(project_root, flagFile, store, env) ==
    With(findAllHeaderDirectory(project_root, store, env),
         LAMBDA hd :
           With(<<FlatMap(LAMBDA h : << <<"-Xcc">>, <<"-I">> \o h >>, hd.res.headerDirs)
                    \o MapSeq(LAMBDA f : <<"-F">> \o f, hd.res.frameworks)
                    \o findAllSwiftFiles(project_root, env),
                  additionalFlags(flagFile, env)>>,
                LAMBDA ba :
                  IF ba[2] = <<>>
                  THEN [res |-> Some(ba[1] \o heuristic_defaults), store |-> hd.store]
                  ELSE kept_additional(ba[1], ba[2], findAllSwiftFiles(project_root, env),
                                       hd.store, env)))

\* collectFlagsFromIntermediates: -I and -F for every directory of the
\* build-output tree that holds a .modulemap or .swiftmodule file
collectFlagsFromIntermediates(env) ==
    FlatMap(LAMBDA root : << <<"-I">> \o root, <<"-F">> \o root >>, env.artifacts)

\* lines 367-380: the build-output scan tier
build_output_tier(filename, env) ==
    collectFlagsFromIntermediates(env) \o build_output_defaults(filename)

\* lines 366-393, entered with the result of the tiers before
last_tiers(filename, t, env) ==
    IF IsRaise(t.res) \/ ~Falsy(t.res) THEN t
    ELSE With(build_output_tier(filename, env),
              LAMBDA flags :
                [res |-> Some(IF flags = <<>> THEN static_fallback(filename) ELSE flags),
                 store |-> t.store])

\* InferFlagsForSwift: the compileFile argument is overwritten on line 334
InferFlagsForSwift(filename, compileFile, store, env) ==
    With(findSwiftModuleRoot(filename, env),
         LAMBDA m :
           With(GetFlagsInCompile(filename, m.compileFile, store, env),
                LAMBDA t1 :
                  IF IsRaise(t1.res) THEN t1
                  ELSE IF Falsy(t1.res) /\ m.flagFile # <<>>
                  THEN With(heuristic_tier(m.root, m.flagFile, t1.store, env),
                            LAMBDA t3 : last_tiers(filename, t3, env))
                  ELSE last_tiers(filename, t1, env)))

(***************************************************************************)
(* The state.                                                               *)
(*   database, file_info, dir_info, cmd_info, firsts, pristine, last:       *)
(*       one CompileFileInfo instance, the database content it was loaded   *)
(*       from, whether no insertion has changed it yet, and the last call   *)
(*       made on it with what it returned.                                  *)
(*   fs, store, result:                                                     *)
(*       the file system a session of flag queries runs on, the session     *)
(*       cache, and the last query with what it returned or raised.         *)
(*   flt:                                                                   *)
(*       one use of the normalizer: the tokens given to filterFlags, the    *)
(*       file cache, and what consuming the generator gave.                 *)
(*   reads, orders:                                                         *)
(*       for a session that also inserts files: how often each database     *)
(*       path was handed to the CompileFileInfo constructor, and the        *)
(*       iteration order (firsts) of each cached instance.                  *)
(*   callers:                                                               *)
(*       the callers that are inside compileFileInfoFromStore, each with    *)
(*       its position and local variables.                                  *)
(***************************************************************************)
VARIABLES database, file_info, dir_info, cmd_info, firsts, pristine, last,
          fs, store, result,
          flt,
          reads, orders,
          callers

index_vars == <<database, file_info, dir_info, cmd_info, firsts, pristine, last>>

infer_vars == <<fs, store, result>>

filter_vars == <<flt>>

session_vars == <<reads, orders>>

race_vars == <<callers>>

vars == <<index_vars, infer_vars, filter_vars, session_vars, race_vars>>

\* what the operations on one group of variables leave alone
beside_index == <<infer_vars, filter_vars, session_vars, race_vars>>
beside_infer == <<index_vars, filter_vars, session_vars, race_vars>>
beside_filter == <<index_vars, infer_vars, session_vars, race_vars>>
beside_session == <<index_vars, filter_vars, race_vars>>
beside_race == <<index_vars, filter_vars>>

\* no database path has been read and no caller is inside the cache
SessionIdle == reads = EmptyMap /\ orders = EmptyMap

RaceIdle == callers = EmptyMap

\* no normalizer run is under test
FilterIdle == flt = [items |-> <<>>, cache |-> EmptyMap, res |-> None, done |-> FALSE]

\* a query: the operation, its two arguments, and its value or exception
Query(op, filename, compileFile, res) ==
    [op |-> op, filename |-> filename, compileFile |-> compileFile, res |-> res]

NoQuery == Query("none", <<>>, <<>>, None)

\* a file system with nothing on it
NoFs ==
    [swiftflags |-> {}, compile |-> {}, roots |-> {}, db |-> [tag |-> "malformed"],
     module |-> [lines |-> <<>>, headers |-> <<>>, swiftfiles |-> <<>>],
     artifacts |-> <<>>]

\* no flag query runs
InferIdle == fs = NoFs /\ store = EmptyStore /\ result = NoQuery

\* no index instance is under test
IndexIdle ==
    /\ database = <<>>
    /\ file_info = EmptyMap
    /\ dir_info = None
    /\ cmd_info = None
    /\ firsts = EmptyMap
    /\ pristine = TRUE
    /\ last = [op |-> "none", arg |-> <<>>, ret |-> None, samefile |-> <<>>, again |-> FALSE]

(***************************************************************************)
(* The index under test: databases of at most MaxRecords records drawn      *)
(* from RecordPool, over two directories /p and /q, the link /l -> /p and   *)
(* one external file list.                                                  *)
(***************************************************************************)
MaxRecords == 2

P_X == <<SL, "p", SL, "X", ".swift">>
P_Y == <<SL, "p", SL, "Y", ".swift">>
L_X == <<SL, "l", SL, "X", ".swift">>
L_Y == <<SL, "l", SL, "Y", ".swift">>
Q_B == <<SL, "q", SL, "B", ".swift">>
Q_C == <<SL, "q", SL, "C", ".swift">>
Q_D == <<SL, "q", SL, "D", ".swift">>
Q_H == <<SL, "q", SL, "H", ".h">>
P_N == <<SL, "p", SL, "n", ".txt">>
LIST_TXT == <<SL, "t", SL, "list.txt">>
GONE_TXT == <<SL, "t", SL, "gone.txt">>

CMD_A == <<"swiftc", SP, "-c">>
\* what splicing /p/Y.swift into CMD_A gives
CMD_K == <<"swiftc", SP>> \o P_Y \o <<SP, "-c">>
CMD_E == <<"swiftc", SP, "-DA", BS, EQ, "1">>
CMD_W == <<SP>>

\* the argument files that exist: /t/list.txt holds "/P/X.swift /q/H.h"
IndexFiles == [f \in {LIST_TXT} |-> <<SL, "P", SL, "X", ".swift", SP>> \o Q_H]

RecordPool ==
    { Record(CMD_A, <<>>, <<>>, P_X),
      Record(CMD_K, <<>>, <<>>, Q_B),
      Record(CMD_E, <<Q_H>>, <<GONE_TXT, LIST_TXT>>, <<>>),
      Record(<<>>, <<>>, <<>>, P_X),
      Record(CMD_W, <<>>, <<>>, L_X) }

Databases == UNION {[1..n -> RecordPool] : n \in 0..MaxRecords}

NewFileArgs == {L_Y, Q_C, Q_D, P_N}

GetArgs == {Lower(P_X), P_X, Lower(L_X), Lower(Q_B)}

\* a call: again says that the call before it was the same new_file call
Call(op, arg, ret, samefile, again) ==
    [op |-> op, arg |-> arg, ret |-> ret, samefile |-> samefile, again |-> again]

\* the instance right after CompileFileInfo(compileFile, store), for a
\* database file whose content is one of dbs
IndexInitFrom(dbs) ==
    /\ database \in dbs
    /\ LET r == load_records(EmptyMap, database, EmptyMap, IndexFiles)
       IN  /\ IsSome(r.res)
           /\ file_info = r.res.v
    /\ dir_info = None
    /\ cmd_info = None
    /\ firsts = EmptyMap
    /\ pristine = TRUE
    /\ last = Call("init", <<>>, None, <<>>, FALSE)
    /\ InferIdle
    /\ FilterIdle
    /\ SessionIdle
    /\ RaceIdle

\* info.groupby_dir()
GroupByDir ==
    /\ \E f \in (IF dir_info = None THEN AllFirsts(dir_index(file_info)) ELSE {firsts}) :
          firsts' = f
    /\ dir_info' = IF dir_info = None THEN Some(dir_index(file_info)) ELSE dir_info
    /\ cmd_info' = IF dir_info = None THEN Some(cmd_index(file_info)) ELSE cmd_info
    /\ last' = Call("groupby_dir", <<>>, None, <<>>, FALSE)
    /\ UNCHANGED <<database, file_info, pristine, beside_index>>

\* info.new_file(filename)
NewFile(filename) ==
    \E f \in (IF dir_info = None THEN AllFirsts(dir_index(file_info)) ELSE {firsts}) :
    \E r \in {new_file(filename, file_info, dir_info, cmd_info, f)} :
       LET dir == Dirname(filekey(filename))
       IN  /\ file_info' = r.file_info
           /\ dir_info' = r.dir_info
           /\ cmd_info' = r.cmd_info
           /\ IF r.inserted
              THEN \E v \in SwiftIn(r.dir_info.v[dir]) : firsts' = Put(f, dir, v)
              ELSE firsts' = IF r.dir_info = None THEN firsts ELSE f
           /\ pristine' = (pristine /\ ~r.inserted)
           /\ last' = Call("new_file", filename, r.ret, r.samefile,
                         last.op = "new_file" /\ last.arg = filename)
           /\ UNCHANGED <<database, beside_index>>

\* info.get(filename)
Get(filename) ==
    /\ last' = Call("get", filename, get(file_info, filename), <<>>, FALSE)
    /\ UNCHANGED <<database, file_info, dir_info, cmd_info, firsts, pristine, beside_index>>

IndexInit == IndexInitFrom(Databases)

IndexNext ==
    \/ GroupByDir
    \/ \E filename \in NewFileArgs : NewFile(filename)
    \/ \E filename \in GetArgs : Get(filename)

SpecIndex == IndexInit /\ [][IndexNext]_vars

(***************************************************************************)
(* The splice on every command: the index of a database with one record,    *)
(* {"file": "/p/X.swift", "command": c}, for every non-empty string c of    *)
(* at most MaxCmdLen characters of SpliceAlphabet, and new files in /p,     *)
(* one of them with a space in its name.                                    *)
(***************************************************************************)
MaxCmdLen == 4

SpliceAlphabet == {"a", SP, SQ, DQ, BS}

SpliceCommands == UNION {[1..n -> SpliceAlphabet] : n \in 1..MaxCmdLen}

P_YZ == <<SL, "p", SL, "Y", SP, "Z", ".swift">>

SpliceInit == IndexInitFrom({<<Record(c, <<>>, <<>>, P_X)>> : c \in SpliceCommands})

SpliceNext ==
    \/ GroupByDir
    \/ \E filename \in {P_Y, P_YZ} : NewFile(filename)
    \/ \E filename \in {Lower(P_X)} : Get(filename)

SpecSplice == SpliceInit /\ [][SpliceNext]_vars

(***************************************************************************)
(* A session of flag queries about one file, /d/.../d/F.swift, Depth        *)
(* directories deep.  The file system is fixed during the session:          *)
(*   fs.swiftflags, fs.compile, fs.roots   the directories of the chain     *)
(*       that hold a .swiftflags file, hold a .compile file, and carry a    *)
(*       project marker;                                                    *)
(*   fs.db         what every .compile file of the chain holds;             *)
(*   fs.module     the lines of every .swiftflags file, and the header and  *)
(*                 .swift files that find lists under a module root;        *)
(*   fs.artifacts  the directories of the build-output tree that hold a     *)
(*                 module artifact.                                         *)
(* /db.json is a database that records the file; /nodb.json does not exist. *)
(***************************************************************************)
Depth == 2

RECURSIVE DirAt(_)
DirAt(i) == IF i = 0 THEN <<>> ELSE DirAt(i - 1) \o <<SL, "d">>

ChainDirs == {DirAt(i) : i \in 1..Depth}

F_SWIFT == Join(DirAt(Depth), <<"F", ".swift">>)
A_H == Join(DirAt(Depth), <<"a", ".h">>)
FW_H == Join(DirAt(Depth), <<"Fw", FRAMEWORK, SL, "Headers", SL, "b", ".h">>)
BUILD_DIR == <<SL, "build", SL, "M", ".build">>
DB_JSON == <<SL, "db.json">>
NODB_JSON == <<SL, "nodb.json">>

CMD_HIT == <<"swiftc", SP, "-use-frontend-parseable-output", SP, "-c", SP>> \o F_SWIFT
CMD_UNCLOSED == <<"swiftc", SP, DQ>>
CMD_EXPLICIT == <<"swiftc", SP, "-explicit", SP>> \o F_SWIFT

Json(records) == [tag |-> "json", records |-> records]

DB_MALFORMED == [tag |-> "malformed"]
DB_HIT == Json(<<Record(CMD_HIT, <<>>, <<>>, F_SWIFT)>>)
DB_UNCLOSED == Json(<<Record(CMD_UNCLOSED, <<>>, <<>>, F_SWIFT)>>)
DB_MISS == Json(<<Record(CMD_A, <<>>, <<>>, P_X)>>)
DB_EXPLICIT == Json(<<Record(CMD_EXPLICIT, <<>>, <<>>, F_SWIFT)>>)

DbContents == {DB_MALFORMED, DB_HIT, DB_UNCLOSED, DB_MISS}

Module(lines, headers, swiftfiles) ==
    [lines |-> lines, headers |-> headers, swiftfiles |-> swiftfiles]

\* an empty flags file in an empty tree; flags, a comment and a source name
\* in a tree with sources; only a dropped flag in an empty tree
ModuleContents ==
    { Module(<<>>, <<>>, <<>>),
      Module(<< <<"#", "c">>, <<"-DX">>, <<"F", ".swift">> >>, <<A_H, FW_H>>, <<F_SWIFT>>),
      Module(<< <<"-emit-localized-strings">> >>, <<>>, <<>>) }

FileSystems ==
    [swiftflags : SUBSET ChainDirs, compile : SUBSET ChainDirs, roots : SUBSET ChainDirs,
     db : DbContents, module : ModuleContents, artifacts : {<<>>, <<BUILD_DIR>>}]

\* what the operations read of a file system
Env(f) ==
    [swiftflags |-> f.swiftflags, compile |-> f.compile, roots |-> f.roots,
     dbfiles |-> [p \in {Join(d, COMPILE) : d \in f.compile} \cup {DB_JSON} |->
                     IF p = DB_JSON THEN DB_EXPLICIT ELSE f.db],
     files |-> EmptyMap,
     flagfiles |-> [p \in {Join(d, SWIFTFLAGS) : d \in f.swiftflags} |-> f.module.lines],
     headers |-> f.module.headers, swiftfiles |-> f.module.swiftfiles,
     artifacts |-> f.artifacts]

InferInit ==
    /\ fs \in FileSystems
    /\ store = EmptyStore
    /\ result = NoQuery
    /\ IndexIdle
    /\ FilterIdle
    /\ SessionIdle
    /\ RaceIdle

\* InferFlagsForSwift(filename, compileFile, store)
InferFlags(filename, compileFile) ==
    \E r \in {InferFlagsForSwift(filename, compileFile, store, Env(fs))} :
        /\ store' = r.store
        /\ result' = Query("InferFlagsForSwift", filename, compileFile, r.res)
        /\ UNCHANGED <<fs, beside_infer>>

\* GetFlags(filename, compileFile, store)
GetFlagsCall(filename, compileFile) ==
    \E r \in {GetFlags(filename, compileFile, store, Env(fs))} :
        /\ store' = r.store
        /\ result' = Query("GetFlags", filename, compileFile, r.res)
        /\ UNCHANGED <<fs, beside_infer>>

InferNext ==
    \/ \E compileFile \in {<<>>, DB_JSON} : InferFlags(F_SWIFT, compileFile)
    \/ \E compileFile \in {DB_JSON, NODB_JSON} : GetFlagsCall(F_SWIFT, compileFile)

SpecInfer == InferInit /\ [][InferNext]_vars

(***************************************************************************)
(* The resolver alone: findSwiftModuleRoot for a file in any directory of   *)
(* the chain (or in / itself), on every placement of .swiftflags files,     *)
(* .compile files and project markers over the chain.                       *)
(***************************************************************************)
ResolveLayouts ==
    {f \in FileSystems : f.db = DB_MISS /\ f.module = Module(<<>>, <<>>, <<>>)
                         /\ f.artifacts = <<>>}

ResolveFiles == {Join(IF i = 0 THEN <<SL>> ELSE DirAt(i), <<"F", ".swift">>) : i \in 0..Depth}

ResolveInit ==
    /\ fs \in ResolveLayouts
    /\ store = EmptyStore
    /\ result = NoQuery
    /\ IndexIdle
    /\ FilterIdle
    /\ SessionIdle
    /\ RaceIdle

\* findSwiftModuleRoot(filename)
FindRoot(filename) ==
    /\ result' = Query("findSwiftModuleRoot", filename, <<>>,
                       Some(findSwiftModuleRoot(filename, Env(fs))))
    /\ UNCHANGED <<fs, store, beside_infer>>

ResolveNext == \E filename \in ResolveFiles : FindRoot(filename)

SpecResolve == ResolveInit /\ [][ResolveNext]_vars

(***************************************************************************)
(* A session of lookups, flag queries and insertions on one store.  The     *)
(* file's directory holds a .compile file (a database that records the      *)
(* file, one that does not, or no JSON at all); /db.json records the file   *)
(* and /nodb.json does not exist.  reads counts the constructor runs per    *)
(* path; a query that would construct once more after MaxReads runs is not  *)
(* taken.                                                                   *)
(***************************************************************************)
MaxReads == 2

CHAIN_DB == Join(DirAt(Depth), COMPILE)
Y_SWIFT == Join(DirAt(Depth), <<"Y", ".swift">>)

SessionPaths == {CHAIN_DB, DB_JSON, NODB_JSON}

SessionLayouts ==
    {f \in FileSystems : /\ f.compile = {DirAt(Depth)} /\ f.swiftflags = {} /\ f.roots = {}
                         /\ f.db \in {DB_HIT, DB_MISS, DB_MALFORMED}
                         /\ f.module = Module(<<>>, <<>>, <<>>) /\ f.artifacts = <<>>}

ReadCount(path) == IF path \in DOMAIN reads THEN reads[path] ELSE 0

\* the constructor runs for a path when the store holds no instance for it
Constructs(compileFile) == compileFile # <<>> /\ compileFile \notin DOMAIN store.compile

MayQuery(compileFile) == Constructs(compileFile) => ReadCount(compileFile) < MaxReads

ReadsAfter(compileFile) ==
    IF Constructs(compileFile) THEN Put(reads, compileFile, ReadCount(compileFile) + 1)
    ELSE reads

SessionInit ==
    /\ fs \in SessionLayouts
    /\ store = EmptyStore
    /\ result = NoQuery
    /\ reads = EmptyMap
    /\ orders = EmptyMap
    /\ IndexIdle
    /\ FilterIdle
    /\ RaceIdle

\* commandForFile(filename, compileFile, store)
Lookup(filename, compileFile) ==
    /\ MayQuery(compileFile)
    /\ \E r \in {commandForFile(filename, compileFile, store, Env(fs))} :
          /\ store' = r.store
          /\ result' = Query("commandForFile", filename, compileFile, r.res)
    /\ reads' = ReadsAfter(compileFile)
    /\ UNCHANGED <<fs, orders, beside_session>>

\* InferFlagsForSwift(filename, None, store, config)
SessionInfer(filename) ==
    LET compileFile == findSwiftModuleRoot(filename, Env(fs)).compileFile
    IN  /\ MayQuery(compileFile)
        /\ \E r \in {InferFlagsForSwift(filename, <<>>, store, Env(fs))} :
              /\ store' = r.store
              /\ result' = Query("InferFlagsForSwift", filename, compileFile, r.res)
        /\ reads' = ReadsAfter(compileFile)
        /\ UNCHANGED <<fs, orders, beside_session>>

\* newfileForCompileFile(filename, compileFile, store)
Insert(filename, compileFile) ==
    /\ MayQuery(compileFile)
    /\ \E c \in {compileFileInfoFromStore(compileFile, store, Env(fs))} :
       \E f \in (IF IsRaise(c.res) THEN {EmptyMap}
                 ELSE IF c.res.v.dir_info = None
                 THEN AllFirsts(dir_index(c.res.v.file_info))
                 ELSE {orders[compileFile]}) :
       \E r \in {newfileForCompileFile(filename, compileFile, store, Env(fs), f)} :
          /\ store' = r.store
          /\ result' = Query("newfileForCompileFile", filename, compileFile, r.res)
          /\ IF IsRaise(c.res) THEN orders' = orders
             ELSE IF r.inserted
             THEN \E v \in SwiftIn(r.store.compile[compileFile].dir_info.v[
                                       Dirname(filekey(filename))]) :
                     orders' = Put(orders, compileFile, Put(f, Dirname(filekey(filename)), v))
             ELSE orders' = IF r.store.compile[compileFile].dir_info = None THEN orders
                            ELSE Put(orders, compileFile, f)
    /\ reads' = ReadsAfter(compileFile)
    /\ UNCHANGED <<fs, beside_session>>

SessionNext ==
    \/ \E filename \in {F_SWIFT, Y_SWIFT}, compileFile \in SessionPaths :
          Lookup(filename, compileFile)
    \/ SessionInfer(F_SWIFT)
    \/ \E compileFile \in SessionPaths : Insert(Y_SWIFT, compileFile)

SpecSession == SessionInit /\ [][SessionNext]_vars

(***************************************************************************)
(* The normalizer on every token list of at most MaxTokens tokens of        *)
(* FilterTokens.  /t/list.txt and /t/args.txt exist and hold tokens that    *)
(* are themselves directives; /t/gone.txt does not exist.  The file cache   *)
(* is empty or holds what an earlier read of the files memoized.            *)
(***************************************************************************)
MaxTokens == 3

ARGS_TXT == <<SL, "t", SL, "args.txt">>

FilterFiles ==
    [f \in {LIST_TXT, ARGS_TXT} |->
        IF f = LIST_TXT THEN <<"a", ".swift", SP, "-filelist", SP, "b", ".swift">>
        ELSE <<"-emit-localized-strings", SP, AT>> \o LIST_TXT]

FilterTokens ==
    { <<"-c">>, FILELIST, LIST_TXT, <<AT>> \o ARGS_TXT, <<AT>> \o GONE_TXT,
      <<"-emit-localized-strings">>, <<"-emit-localized-strings-path">> }

FilterInputs == UNION {[1..n -> FilterTokens] : n \in 0..MaxTokens}

\* the cache after getFileArgs has read every file that exists
MemoCache == [f \in DOMAIN FilterFiles |-> cmd_split(FilterFiles[f]).v]

FilterInit ==
    /\ flt \in [items : FilterInputs, cache : {EmptyMap, MemoCache}, res : {None},
                done : {FALSE}]
    /\ IndexIdle
    /\ InferIdle
    /\ SessionIdle
    /\ RaceIdle

\* list(filterFlags(items, fileCache))
FilterFlags ==
    \E r \in {filterFlags(flt.items, flt.cache, FilterFiles)} :
        /\ flt' = [items |-> flt.items, cache |-> r.cache, res |-> r.res, done |-> TRUE]
        /\ UNCHANGED beside_filter

FilterNext == FilterFlags

SpecFilter == FilterInit /\ [][FilterNext]_vars

(***************************************************************************)
(* Callers a and b inside the cache at once.  Each call of                  *)
(* newfileForCompileFile or commandForFile on /db.json runs                 *)
(* compileFileInfoFromStore as three steps another caller can come          *)
(* between (the constructor reads a file): the get of line 285, the         *)
(* constructor of line 290, the assignment of line 291; then it uses the    *)
(* instance it holds.  callers.heap is the instances constructed so far, an *)
(* instance being known by its position; callers.entry is the one stored    *)
(* under the path (0: none) and store.compile holds its value;              *)
(* callers.info is each caller's local variable.  With callers.serial the   *)
(* calls are serialized from outside: none begins while another runs.       *)
(* callers.inserted is the files an insertion has returned a set for,       *)
(* callers.replaced tells that an assignment replaced a stored instance,    *)
(* and callers.lost that a lookup begun after a file's insertion returned   *)
(* found no command for it.                                                 *)
(***************************************************************************)
MaxCalls == 3

CallerIds == {"a", "b"}

RaceOps == {"newfileForCompileFile", "commandForFile"}

NoCall == [op |-> "none", filename |-> <<>>, after |-> {}]

\* a variant of the test on line 286 that takes every get for a miss
cache_miss_always(info) == TRUE

\* line 286: info is None
cache_miss(info) == info = 0

RaceInit ==
    /\ callers = [serial |-> FALSE, pc |-> [c \in CallerIds |-> "idle"],
                  call |-> [c \in CallerIds |-> NoCall],
                  info |-> [c \in CallerIds |-> 0],
                  heap |-> <<>>, entry |-> 0, calls |-> 0,
                  inserted |-> {}, replaced |-> FALSE, lost |-> FALSE]
       \/ callers = [serial |-> TRUE, pc |-> [c \in CallerIds |-> "idle"],
                     call |-> [c \in CallerIds |-> NoCall],
                     info |-> [c \in CallerIds |-> 0],
                     heap |-> <<>>, entry |-> 0, calls |-> 0,
                     inserted |-> {}, replaced |-> FALSE, lost |-> FALSE]
    /\ InferIdle
    /\ IndexIdle
    /\ FilterIdle
    /\ SessionIdle

\* lines 284-286: a call begins and gets the entry of the path
CacheGet(c, op, filename) ==
    /\ callers.pc[c] = "idle"
    /\ callers.calls < MaxCalls
    /\ callers.serial => \A d \in CallerIds : callers.pc[d] = "idle"
    /\ callers' = [callers EXCEPT
                      !.pc[c] = IF cache_miss(callers.entry) THEN "construct" ELSE "use",
                      !.call[c] = [op |-> op, filename |-> filename,
                                   after |-> callers.inserted],
                      !.info[c] = callers.entry,
                      !.calls = @ + 1]
    /\ UNCHANGED <<fs, store, result, session_vars, beside_race>>

\* line 290: info = CompileFileInfo(compileFile, store)
CacheConstruct(c) ==
    /\ callers.pc[c] = "construct"
    /\ \E r \in {CompileFileInfo_init(DB_JSON, Env(fs).dbfiles, store.filelist,
                                      Env(fs).files)} :
          /\ IsSome(r.res)
          /\ callers' = [callers EXCEPT !.pc[c] = "assign",
                                        !.heap = Append(@, Instance(r.res.v)),
                                        !.info[c] = Len(callers.heap) + 1]
          /\ store' = [store EXCEPT !.filelist = r.cache]
    /\ UNCHANGED <<fs, result, session_vars, beside_race>>

\* line 291: compile_store[compileFile] = info
CacheAssign(c) ==
    /\ callers.pc[c] = "assign"
    /\ callers' = [callers EXCEPT !.pc[c] = "use",
                                  !.entry = callers.info[c],
                                  !.replaced = @ \/ callers.entry # 0]
    /\ store' = [store EXCEPT !.compile = Put(@, DB_JSON, callers.heap[callers.info[c]])]
    /\ UNCHANGED <<fs, result, session_vars, beside_race>>

\* lines 274 and 280: info.new_file(filename) or info.get(filename) on the
\* instance the caller holds.  The iteration order of the instance's sets
\* is chosen at the call.
CacheUse(c) ==
    /\ callers.pc[c] = "use"
    /\ LET k == callers.info[c]
           inst == callers.heap[k]
           call == callers.call[c]
       IN  IF call.op = "commandForFile"
           THEN \E r \in {get(inst.file_info, call.filename)} :
                   /\ result' = Query(call.op, call.filename, DB_JSON, r)
                   /\ callers' = [callers EXCEPT
                                     !.pc[c] = "idle",
                                     !.lost = @ \/ (call.filename \in call.after /\ r = None)]
                   /\ store' = store
           ELSE \E f \in AllFirsts(IF inst.dir_info = None THEN dir_index(inst.file_info)
                                   ELSE inst.dir_info.v) :
                \E r \in {new_file(call.filename, inst.file_info, inst.dir_info,
                                   inst.cmd_info, f)} :
                \E after \in {[file_info |-> r.file_info, dir_info |-> r.dir_info,
                               cmd_info |-> r.cmd_info]} :
                   /\ result' = Query(call.op, call.filename, DB_JSON, r.ret)
                   /\ callers' = [callers EXCEPT
                                     !.pc[c] = "idle",
                                     !.heap[k] = after,
                                     !.inserted = IF IsSome(r.ret)
                                                  THEN @ \cup {call.filename} ELSE @]
                   /\ store' = IF callers.entry = k
                               THEN [store EXCEPT !.compile = Put(@, DB_JSON, after)]
                               ELSE store
    /\ UNCHANGED <<fs, session_vars, beside_race>>

RaceNext ==
    \/ \E c \in CallerIds, op \in RaceOps, filename \in {F_SWIFT, Y_SWIFT} :
          CacheGet(c, op, filename)
    \/ \E c \in CallerIds : CacheConstruct(c)
    \/ \E c \in CallerIds : CacheAssign(c)
    \/ \E c \in CallerIds : CacheUse(c)

SpecRace == RaceInit /\ [][RaceNext]_vars

(***************************************************************************)
(* Claims about the flag queries (SpecInfer).                               *)
(***************************************************************************)

\* what the resolver finds for the last query
Resolved == findSwiftModuleRoot(result.filename, Env(fs))

InferCalled == result.op = "InferFlagsForSwift"

\* the convention-record file the last query consulted holds no database
ConsultedMalformed == Resolved.compileFile # <<>> /\ fs.db = DB_MALFORMED

\* the tokens of a recorded command without the program name, normalized
RecordedFlags(command) ==
    filterFlags(Tail(cmd_split(command).v), EmptyMap, EmptyMap).res

\* C1: InferFlagsForSwift never raises a load error: when the compile
\* database file it consults is absent or malformed, the call still returns
\* a flag list, produced by a later tier.
C1_LoadErrorNotPropagated ==
    (InferCalled /\ ConsultedMalformed) =>
        /\ ~IsRaise(result.res)
        /\ IsSome(result.res) /\ result.res.v # <<>>

\* C2: InferFlagsForSwift called with an explicit database that records the
\* queried file returns that record's tokens without the program name,
\* normalized, whatever marker and convention-record files the resolver finds.
C2_ExplicitDatabaseWins ==
    (InferCalled /\ result.compileFile = DB_JSON) =>
        result.res = RecordedFlags(CMD_EXPLICIT)

\* C3: when no database load fails, InferFlagsForSwift returns a non-empty
\* flag list.
C3_AlwaysNonEmptyFlags ==
    (InferCalled /\ ~ConsultedMalformed) =>
        IsSome(result.res) /\ result.res.v # <<>>

\* no database record of the queried file is at hand: none was passed, and
\* the resolver found no convention-record file or one without the file
NoRecordAvailable ==
    /\ result.compileFile = <<>>
    /\ Resolved.compileFile = <<>> \/ fs.db = DB_MISS

\* C4: with no database record, no marker file found on the walk and no
\* artifact directory in the build-output tree, InferFlagsForSwift returns
\* the static fallback set: the file path, the default SDK flag and the
\* default include and library search flags of that tier.
C4_StaticFallbackWhenNothingFound ==
    (InferCalled /\ NoRecordAvailable /\ Resolved.flagFile = <<>> /\ fs.artifacts = <<>>) =>
        result.res = Some(static_fallback(result.filename))

\* C18: when the resolver finds a marker file and no record matches the
\* file, InferFlagsForSwift returns the flags of the heuristic tier; the
\* flags of the build-output scan tier are returned only when no marker
\* file was found.
C18_MarkerMeansHeuristicTier ==
    (InferCalled /\ NoRecordAvailable /\ Resolved.flagFile # <<>>) =>
        /\ result.res = heuristic_tier(Resolved.root, Resolved.flagFile, store, Env(fs)).res
        /\ result.res # Some(build_output_tier(result.filename, Env(fs)))

(***************************************************************************)
(* Claims about the resolver (SpecResolve).                                 *)
(***************************************************************************)

\* the directories above a file, / excluded: the prefixes of its path that
\* end before a slash
Ancestors(filename) ==
    {Prefix(filename, k) : k \in {j \in 1..(Len(filename) - 1) : filename[j + 1] = SL}}

Deepest(dirs) == CHOOSE d \in dirs : \A e \in dirs : Len(e) <= Len(d)

FindRootDone == result.op = "findSwiftModuleRoot"

\* the directories above the queried file that hold a .swiftflags file
MarkerDirs == Ancestors(result.filename) \cap fs.swiftflags

\* where the walk stops: the deepest directory above the file that holds a
\* marker file or carries a project marker
StopDirs == Ancestors(result.filename) \cap (fs.swiftflags \cup fs.roots)

\* C12: when the resolver returns a marker file, the root it returns is the
\* deepest directory above the file that holds a marker file, and the
\* marker file returned is the one of that directory; and when the deepest
\* directory that holds a marker file or carries a project marker holds a
\* marker file, that marker file is returned, project marker or not.
C12_RootIsDeepestMarker ==
    /\ (FindRootDone /\ result.res.v.flagFile # <<>>) =>
          /\ MarkerDirs # {}
          /\ result.res.v.root = Deepest(MarkerDirs)
          /\ result.res.v.flagFile = Join(Deepest(MarkerDirs), <<".swiftflags">>)
    /\ (FindRootDone /\ StopDirs # {} /\ Deepest(StopDirs) \in fs.swiftflags) =>
          result.res.v.flagFile # <<>>

\* a marker file is returned from a directory that is a project root too,
\* with another marker file above it
C12_Witness ==
    /\ FindRootDone /\ result.res.v.flagFile # <<>>
    /\ result.res.v.root \in fs.roots
    /\ Cardinality(MarkerDirs) >= 2

\* the directories whose .compile file the walk looks at: those below the
\* stop, and the stop itself unless it holds a marker file
RecordDirs ==
    {d \in Ancestors(result.filename) \cap fs.compile :
        StopDirs # {} => \/ Len(d) > Len(Deepest(StopDirs))
                         \/ d = Deepest(StopDirs) /\ d \notin fs.swiftflags}

\* C16: the convention-record file the resolver returns is the one of the
\* deepest inspected directory that has one, whether the walk ends at a
\* marker file, at a project root or at the filesystem root; a record file
\* in the marker file's directory or above the stop is never returned.
C16_RecordIsFirstSeen ==
    FindRootDone =>
        result.res.v.compileFile =
            IF RecordDirs = {} THEN <<>> ELSE Join(Deepest(RecordDirs), <<".compile">>)

\* a record file is returned although the walk went on past it to a marker
\* file whose directory holds a record file too
C16_Witness ==
    /\ FindRootDone
    /\ result.res.v.compileFile # <<>>
    /\ result.res.v.flagFile # <<>>
    /\ result.res.v.root \in fs.compile

(***************************************************************************)
(* Claims about the session (SpecSession).                                  *)
(***************************************************************************)

\* the step is a query that consults the database path p (every step of a
\* session is a query)
Consults(p) == result'.compileFile = p

\* C13: the Index of a database path is constructed exactly once in a
\* session: a query that consults the path leaves an instance for it in the
\* store, the constructor has then run once for the path, and an instance
\* in the store is never removed or replaced (it changes only in place, by
\* an insertion).
C13_IndexConstructedOnce ==
    [][\A p \in SessionPaths :
          /\ Consults(p) => /\ p \in DOMAIN store'.compile
                            /\ reads'[p] = 1
          /\ p \in DOMAIN store.compile =>
                /\ p \in DOMAIN store'.compile
                /\ reads'[p] = reads[p]
                /\ store'.compile[p] # store.compile[p] =>
                      result'.op = "newfileForCompileFile" /\ Consults(p)]_vars

\* the load of p has failed: the constructor ran and the store has no instance
LoadFailed(p) == ReadCount(p) >= 1 /\ p \notin DOMAIN store.compile

\* C17: once the load of a database path has failed, a later query for the
\* path does not read the file again and is answered as 'no data', without
\* an exception.
C17_FailedLoadNotRetried ==
    [][\A p \in SessionPaths :
          (LoadFailed(p) /\ Consults(p)) =>
              /\ reads'[p] = reads[p]
              /\ ~IsRaise(result'.res)]_vars

(***************************************************************************)
(* Claims about callers inside the cache at once (SpecRace).                *)
(***************************************************************************)

\* C19: two callers inside compileFileInfoFromStore for one path at once
\* can both miss, construct two instances and have the later assignment
\* replace the earlier, so that a file inserted into the earlier instance
\* has no command for a later lookup; with the calls serialized one
\* instance is constructed, none is replaced and no insertion is lost.
C19_SerializedCallsShareOneInstance ==
    callers.serial =>
        /\ Len(callers.heap) <= 1
        /\ ~callers.replaced
        /\ ~callers.lost
        /\ \A y \in callers.inserted :
              filekey(y) \in DOMAIN store.compile[DB_JSON].file_info

\* both callers missed, two instances were constructed, the later
\* assignment replaced the earlier, and a lookup begun after the insertion
\* into the earlier instance found no command
C19_Witness ==
    /\ ~callers.serial
    /\ Len(callers.heap) = 2
    /\ callers.replaced
    /\ callers.lost
    /\ Y_SWIFT \in callers.inserted
    /\ filekey(Y_SWIFT) \in DOMAIN callers.heap[1].file_info
    /\ filekey(Y_SWIFT) \notin DOMAIN store.compile[DB_JSON].file_info
    /\ result = Query("commandForFile", Y_SWIFT, DB_JSON, None)

(***************************************************************************)
(* Claims about the normalizer (SpecFilter).                                *)
(***************************************************************************)

\* the tokenized contents of an indirect file
C11_Contents(path) == cmd_split(FilterFiles[path]).v

RECURSIVE C11_IsValue(_, _)
\* token i is the value of the directive before it
C11_IsValue(items, i) ==
    /\ i > 1
    /\ items[i - 1] \in {<<"-filelist">>, <<"-emit-localized-strings-path">>}
    /\ ~C11_IsValue(items, i - 1)

\* the indirect files a token list refers to
C11_Reads(items) ==
    {items[i] : i \in {j \in DOMAIN items :
                          C11_IsValue(items, j) /\ items[j - 1] = <<"-filelist">>}}
    \cup {Tail(items[i]) : i \in {j \in DOMAIN items :
                                     ~C11_IsValue(items, j) /\ items[j][1] = "@"}}

\* what token i contributes to the output
C11_Piece(items, i) ==
    IF C11_IsValue(items, i)
    THEN IF items[i - 1] = <<"-filelist">> THEN C11_Contents(items[i]) ELSE <<>>
    ELSE IF items[i] \in {<<"-filelist">>, <<"-emit-localized-strings-path">>,
                          <<"-emit-localized-strings">>,
                          <<"-use-frontend-parseable-output">>}
    THEN <<>>
    ELSE IF items[i][1] = "@" THEN C11_Contents(Tail(items[i]))
    ELSE <<items[i]>>

C11_Expected(items) == Concat([i \in DOMAIN items |-> C11_Piece(items, i)])

C11_Readable == C11_Reads(flt.items) \subseteq DOMAIN FilterFiles

\* C11: for every token list whose indirect files exist, the normalizer's
\* output is the input with each -filelist directive and its path replaced
\* by the tokenized contents of the file, each @file token replaced by the
\* tokenized contents of its file, each no-value directive removed, each
\* one-value directive removed with the token after it, and every other
\* token kept in order; the tokens of an indirect file are emitted as they
\* are, neither expanded nor filtered.
C11_NormalizerOutput ==
    (flt.done /\ C11_Readable) => flt.res = Some(C11_Expected(flt.items))

\* a -filelist directive was expanded, and the -filelist token that the file
\* itself holds is in the output
C11_Witness ==
    /\ flt.done /\ C11_Readable
    /\ flt.cache # EmptyMap
    /\ \E i \in DOMAIN flt.items : flt.items[i] = FILELIST /\ C11_IsValue(flt.items, i + 1)
    /\ <<"-emit-localized-strings-path">> \in Range(flt.items)
    /\ FILELIST \in Range(flt.res.v)

(***************************************************************************)
(* Claims about the index (SpecIndex).                                      *)
(***************************************************************************)

\* the paths a record names, and their file keys (read off the database,
\* not off file_info)
NamedPaths(rec) ==
    Range(rec.files) \cup (IF rec.file # <<>> THEN {rec.file} ELSE {})
    \cup UNION {Range(cmd_split(IndexFiles[l]).v) :
                  l \in {x \in Range(rec.fileLists) : x \in DOMAIN IndexFiles}}

NamedKeys(rec) == {filekey(p) : p \in NamedPaths(rec)}

AfterConstruct == last.op = "get" /\ pristine

\* C5 as stated: after construct, lookup of a file key returns exactly the
\* command of the last record that names it, and so does a query that
\* differs from a recorded path only in letter case.
C5_LookupLastRecordExact ==
    AfterConstruct =>
       LET byKey == {i \in DOMAIN database : last.arg \in NamedKeys(database[i])}
           byCase == {i \in DOMAIN database :
                        \E p \in NamedPaths(database[i]) : Lower(p) = Lower(last.arg)}
       IN  /\ byKey # {} => last.ret = Some(database[Max(byKey)].command)
           /\ byCase # {} => last.ret = Some(database[Max(byCase)].command)

\* C5 amended: after construct, a lookup whose query, lower-cased, is the
\* file key (lower-cased real path) of a recorded path returns the command
\* of the last record that has a non-empty command and names that key, with
\* every "\=" in it replaced by "="; any other lookup returns nothing.
C5_LookupLastCommand ==
    AfterConstruct =>
       LET named == {i \in DOMAIN database :
                       /\ database[i].command # <<>>
                       /\ Lower(last.arg) \in NamedKeys(database[i])}
       IN  last.ret = IF named = {} THEN None
                      ELSE Some(unescape_eq(database[Max(named)].command))

\* C5 witness: a lookup answered from the later of two records that name
\* the key with different commands
C5_Witness ==
    /\ AfterConstruct
    /\ IsSome(last.ret)
    /\ \E i, j \in DOMAIN database :
          /\ i < j
          /\ Lower(last.arg) \in NamedKeys(database[i]) \cap NamedKeys(database[j])
          /\ database[i].command # <<>>
          /\ database[j].command # <<>>
          /\ database[i].command # database[j].command

\* C6: once the indices exist, the set cmd_info stores under a command is
\* exactly the set of file keys file_info maps to that command, for every
\* command of either map.
C6_CommandIndexPartitions ==
    cmd_info # None =>
       \A c \in DOMAIN cmd_info.v \cup Range(file_info) :
          /\ c \in DOMAIN cmd_info.v
          /\ cmd_info.v[c] = {f \in DOMAIN file_info : file_info[f] = c}

\* C7: once the indices exist, the directory groups cover the domain of
\* file_info, and each group is exactly the keys of that directory.
C7_DirectoryIndexPartitions ==
    dir_info # None =>
       /\ UNION Range(dir_info.v) = DOMAIN file_info
       /\ \A d \in DOMAIN dir_info.v :
             dir_info.v[d] = {f \in DOMAIN file_info : Dirname(f) = d}

\* C7 witness: the indices after an insertion
C7_Witness ==
    /\ dir_info # None
    /\ last.op = "new_file"
    /\ last.samefile # <<>>
    /\ filekey(last.arg) \in dir_info.v[Dirname(filekey(last.arg))]

SecondCall == last.op = "new_file" /\ last'.op = "new_file" /\ last'.arg = last.arg

\* C8 as stated: the second of two consecutive new_file calls with the same
\* path returns what the first returned and changes nothing.
C8_SecondCallSameSet ==
    [][SecondCall =>
         /\ last'.ret = last.ret
         /\ UNCHANGED <<file_info, dir_info, cmd_info>>]_vars

\* C8 amended: the second of two consecutive new_file calls with the same
\* path changes nothing; it returns what the first returned when that was
\* no set, and otherwise the set holding only the new file's key, which is
\* a subset of the first call's set.
C8_SecondCallNoMutation ==
    [][SecondCall =>
         /\ UNCHANGED <<file_info, dir_info, cmd_info>>
         /\ IF IsSome(last.ret)
            THEN /\ last'.ret = Some({filekey(last.arg)})
                 /\ last'.ret.v \subseteq last.ret.v
            ELSE last'.ret = last.ret]_vars

\* C8 witness: a repeated call right after the call that inserted the file
\* into a batch
C8_Witness ==
    /\ last.op = "new_file"
    /\ last.again
    /\ last.ret = Some({filekey(last.arg)})
    /\ cmd_info # None
    /\ \E c \in DOMAIN cmd_info.v :
          filekey(last.arg) \in cmd_info.v[c] /\ Cardinality(cmd_info.v[c]) > 1
    /\ \A i \in DOMAIN database : filekey(last.arg) \notin NamedKeys(database[i])

\* C9: an insertion that used sibling s returns the batch that shared s's
\* command before the call plus the new key, and afterwards every member
\* of that set looks up to one command, which contains the new file's path.
C9_InsertMovesWholeBatch ==
    [][(last'.op = "new_file" /\ last'.samefile # <<>>) =>
         LET key == filekey(last'.arg)
             batch == {f \in DOMAIN file_info : file_info[f] = file_info[last'.samefile]}
         IN  /\ last'.ret = Some(batch \cup {key})
             /\ \A v \in batch \cup {key} :
                   /\ get(file_info', v) = get(file_info', key)
                   /\ IsSome(get(file_info', v))
                   /\ Contains(get(file_info', v).v, Realpath(last'.arg))]_vars

\* the grouping of the file keys by directory and by command as the
\* instance holds it: the index once it is built, and before that what
\* file_info groups to
GroupsByDir(di, fi) ==
    IF di = None
    THEN [d \in {Dirname(f) : f \in DOMAIN fi} |-> {f \in DOMAIN fi : Dirname(f) = d}]
    ELSE di.v

GroupsByCommand(ci, fi) ==
    IF ci = None THEN [c \in Range(fi) |-> {f \in DOMAIN fi : fi[f] = c}] ELSE ci.v

\* C14: a new_file call that returns None (cannot infer) leaves file_info
\* and the grouping of the file keys by directory and by command as they
\* were.
C14_CannotInferChangesNothing ==
    [][(last'.op = "new_file" /\ last'.ret = None) =>
          /\ file_info' = file_info
          /\ GroupsByDir(dir_info', file_info') = GroupsByDir(dir_info, file_info)
          /\ GroupsByCommand(cmd_info', file_info') = GroupsByCommand(cmd_info, file_info)]_vars

\* None was returned for a new .swift file although its directory holds a
\* .swift key: the sibling's command has no first-token match; the call
\* built the two indices
C14_Witness ==
    /\ last.op = "new_file" /\ last.ret = None
    /\ filekey(last.arg) \notin DOMAIN file_info
    /\ \E f \in DOMAIN file_info :
          Dirname(f) = Dirname(filekey(last.arg)) /\ EndsWith(f, DOT_SWIFT)
    /\ dir_info # None
    /\ pristine

\* C15: a new_file call that returns a set changes file_info only at the
\* new key and at the keys that shared the chosen sibling's command; every
\* key that mapped to another command keeps it; and no step removes a key.
C15_InsertTouchesOnlyBatch ==
    [][/\ DOMAIN file_info \subseteq DOMAIN file_info'
       /\ (last'.op = "new_file" /\ IsSome(last'.ret)) =>
             /\ DOMAIN file_info' \subseteq DOMAIN file_info \cup {filekey(last'.arg)}
             /\ \A k \in DOMAIN file_info :
                   file_info'[k] # file_info[k] =>
                      /\ last'.samefile # <<>>
                      /\ file_info[k] = file_info[last'.samefile]]_vars

\* an insertion that moved a batch while a key of another command kept
\* that command
C15_Witness ==
    /\ last.op = "new_file" /\ last.samefile # <<>> /\ IsSome(last.ret)
    /\ \E k \in DOMAIN file_info : k \notin last.ret.v
    /\ Cardinality(last.ret.v) > 1

\* C20: every new_file call completes with a set or with None; none aborts
\* on the assertion over cmd_info or on popping the sibling's command.
C20_InsertNeverAborts ==
    last.op = "new_file" => ~IsRaise(last.ret)

(***************************************************************************)
(* Claims about the splice (SpecSplice).                                    *)
(***************************************************************************)

\* the command tokenized (cmd_split) and then filtered (filterFlags)
Normalized(command) ==
    LET ts == cmd_split(command)
    IN  IF IsRaise(ts) THEN ts ELSE filterFlags(ts.v, EmptyMap, IndexFiles).res

\* C10: when an insertion splices a new file into a command that tokenizes,
\* the spliced command tokenizes and filters to a list that holds the new
\* file's path as a token and every token of the original command as often
\* as before (once more for a token equal to the new path).
C10_SpliceKeepsTokens ==
    [][(last'.op = "new_file" /\ last'.samefile # <<>>
          /\ IsSome(Normalized(file_info[last'.samefile]))) =>
         LET old == Normalized(file_info[last'.samefile]).v
             new == Normalized(file_info'[last'.samefile])
             path == Realpath(last'.arg)
         IN  /\ IsSome(new)
             /\ Count(new.v, path) >= 1
             /\ \A t \in Range(old) :
                   Count(new.v, t) = Count(old, t) + (IF t = path THEN 1 ELSE 0)]_vars

====
